---- MODULE Spec2Model ----
(***************************************************************************)
(* Request-context construction, resource routing, query dispatch, health  *)
(* check and instance life cycle of the CloudWatch data source backend     *)
(* (pkg/cloudwatch/cloudwatch.go, the resource mux and the routes          *)
(* package).  Under Spec every request handler is one atomic action;     *)
(* under SpecTasks requests run concurrently, one step per suspension      *)
(* point.  What the environment decides (whether the config provider, a    *)
(* provider API call, a form parse or a JSON encoding fails) is an input   *)
(* of the action.                                                          *)
(***************************************************************************)
EXTENDS Integers, Sequences, FiniteSets, TLC

VARIABLES
    im,          \* instance manager: instance key -> memoized DataSource or NoInstance
    caches,      \* heap of go-cache objects: cache id -> (tag key -> value or NoValue)
    nextCache,   \* number of caches allocated so far by cache.New
    last,        \* what the last request did and returned
    tasks        \* the requests running concurrently: task -> its locals and position

vars == <<im, caches, nextCache, last, tasks>>

-----------------------------------------------------------------------------
(* Bounds *)

\* cache.New may be called at most this many times in one behaviour
MaxCaches == 3
\* a query request carries at most this many queries
MaxQueries == 2

-----------------------------------------------------------------------------
(* Program constants *)

defaultRegion == "default"
logsQueryMode == "Logs"
annotationQuery == "annotationQuery"
logAction == "logAction"
timeSeriesQuery == "timeSeriesQuery"

StatusOK == 200
StatusBadRequest == 400
StatusForbidden == 403
StatusInternalServerError == 500

\* models.ErrMissingRegion, services.ErrAccessDeniedException
ErrMissingRegion == "ErrMissingRegion"
ErrAccessDeniedException == "ErrAccessDeniedException"

-----------------------------------------------------------------------------
(* Input domains *)

InstanceKeys == {"ds-a", "ds-b"}
\* Settings.Region of an instance: may be left empty in the settings
HomeRegions == {"", "us-east-1", "eu-west-1"}
ExternalIDs == {"ext-1", "ext-2"}
\* the region parameter of a request: absent (""), the sentinel, or a region
RequestRegions == {"", defaultRegion, "us-east-1", "eu-west-1"}
TagKeys == {"k1"}
TagValues == {"v1", "v2"}

\* the instance manager has no instance for a key (its settings do not load)
NoInstance == [present |-> FALSE]
NoValue == "NoValue"
NoErr == "nil"
\* a nil capability client
Nil == [api |-> "nil", cfg |-> [Region |-> "", resolved |-> FALSE]]
ErrInstance == "ErrInstanceManagerGet"
ErrGetConfig == "ErrGetConfig"
ErrUpstream == "ErrUpstream"
ErrMarshal == "ErrMarshal"
ErrParseForm == "ErrParseForm"
ErrDimensionFilter == "ErrDimensionFilter"
ErrRegionRequired == "region is required"

\* F applied to the value of v: a local variable assigned once (v is
\* evaluated once, before F uses it)
With(v, F(_)) == CHOOSE r \in {F(x) : x \in {v}} : TRUE

CacheIds == 1..MaxCaches

SettingsSet == [Region : HomeRegions, ExternalID : ExternalIDs]
\* the zero value of models.CloudWatchSettings
ZeroSettings == [Region |-> "", ExternalID |-> ""]

-----------------------------------------------------------------------------
(* Configuration resolution and client construction *)

\* aws.Config{}
EmptyConfig == [Region |-> "", resolved |-> FALSE]

\* awsauth.ConfigProvider.GetConfig on success: the configuration carries the
\* region of the auth settings it was resolved for
GetConfig(authSettings) == [Region |-> authSettings.Region, resolved |-> TRUE]

\* a mutant of newAWSConfig: the sentinel is substituted without the check
\* for an empty home region
newAWSConfigNoRegionCheck(instance, region, providerOk) ==
    LET r == IF region = defaultRegion THEN instance.Settings.Region
             ELSE region
        authSettings == [Region |-> r,
                         ExternalID |-> instance.Settings.ExternalID]
    IN  IF providerOk
        THEN [cfg |-> GetConfig(authSettings), err |-> NoErr,
              provider |-> <<authSettings.Region>>]
        ELSE [cfg |-> EmptyConfig, err |-> ErrGetConfig,
              provider |-> <<authSettings.Region>>]

\* DataSource.newAWSConfig; providerOk: whether GetConfig succeeds.
\* provider: the regions GetConfig was called with (none when it was not called)
newAWSConfig(instance, region, providerOk) ==
    IF region = defaultRegion /\ instance.Settings.Region = ""
    THEN [cfg |-> EmptyConfig, err |-> ErrMissingRegion, provider |-> <<>>]
    ELSE LET r == IF region = defaultRegion THEN instance.Settings.Region
                  ELSE region
             authSettings == [Region |-> r,
                              ExternalID |-> instance.Settings.ExternalID]
         IN  IF providerOk
             THEN [cfg |-> GetConfig(authSettings), err |-> NoErr,
                   provider |-> <<authSettings.Region>>]
             ELSE [cfg |-> EmptyConfig, err |-> ErrGetConfig,
                   provider |-> <<authSettings.Region>>]

NewEC2API(cfg) == [api |-> "EC2", cfg |-> cfg]
NewOAMAPI(cfg) == [api |-> "OAM", cfg |-> cfg]
NewLogsAPI(cfg) == [api |-> "Logs", cfg |-> cfg]
NewCWClient(cfg) == [api |-> "CloudWatch", cfg |-> cfg]
NewMetricsClient(cwClient) == [api |-> "Metrics", cfg |-> cwClient.cfg]

\* models.RequestContext{}
EmptyRequestContext ==
    [OAMAPIProvider |-> Nil, MetricsClientProvider |-> Nil,
     LogsAPIProvider |-> Nil, EC2APIProvider |-> Nil, Settings |-> ZeroSettings]

\* DataSource.getInstance: im.Get fails when no instance can be made for the key
getInstance(k) ==
    IF ~im[k].present
    THEN [instance |-> NoInstance, err |-> ErrInstance]
    ELSE [instance |-> im[k], err |-> NoErr]

-----------------------------------------------------------------------------
(* Request Context Builder *)

\* what a context factory returns (ctx, err) and what it did on the way:
\* resolved: the newAWSConfig calls in order, each its region argument and
\* the error it returned;
\* provider: the regions GetConfig was called with, in order
Resolution(region, c) == [region |-> region, err |-> c.err]

FactoryResult(factory, region, ctx, err, resolved, provider) ==
    [factory |-> factory, region |-> region, ctx |-> ctx, err |-> err,
     resolved |-> resolved, provider |-> provider]

\* a mutant of getRequestContext: the account-discovery client is built from
\* the home-region configuration, beside the EC2 client
getRequestContextOAMFromHome(k, region, homeOk, reqOk) ==
    With(getInstance(k), LAMBDA gi :
    IF gi.err # NoErr
    THEN FactoryResult("getRequestContext", region, EmptyRequestContext,
                       gi.err, <<>>, <<>>)
    ELSE
    LET instance == gi.instance
        region2 == IF region = defaultRegion THEN instance.Settings.Region
                   ELSE region
    IN
    With(newAWSConfig(instance, defaultRegion, homeOk), LAMBDA c1 :
    IF c1.err # NoErr
    THEN FactoryResult("getRequestContext", region, EmptyRequestContext,
                       c1.err, <<Resolution(defaultRegion, c1)>>, c1.provider)
    ELSE
    LET ec2client == NewEC2API(c1.cfg) IN
    With(newAWSConfig(instance, region2, reqOk), LAMBDA c2 :
    IF c2.err # NoErr
    THEN FactoryResult("getRequestContext", region, EmptyRequestContext,
                       c2.err,
                       <<Resolution(defaultRegion, c1), Resolution(region2, c2)>>,
                       c1.provider \o c2.provider)
    ELSE FactoryResult("getRequestContext", region,
             [OAMAPIProvider |-> NewOAMAPI(c1.cfg),
              MetricsClientProvider |-> NewMetricsClient(NewCWClient(c2.cfg)),
              LogsAPIProvider |-> NewLogsAPI(c2.cfg),
              EC2APIProvider |-> ec2client,
              Settings |-> instance.Settings],
             NoErr,
             <<Resolution(defaultRegion, c1), Resolution(region2, c2)>>,
             c1.provider \o c2.provider))))

\* a mutant of getRequestContext: the requested region is resolved first, and
\* a failure of the second resolution returns the clients built so far
getRequestContextSwapped(k, region, homeOk, reqOk) ==
    With(getInstance(k), LAMBDA gi :
    IF gi.err # NoErr
    THEN FactoryResult("getRequestContext", region, EmptyRequestContext,
                       gi.err, <<>>, <<>>)
    ELSE
    LET instance == gi.instance
        region2 == IF region = defaultRegion THEN instance.Settings.Region
                   ELSE region
    IN
    With(newAWSConfig(instance, region2, reqOk), LAMBDA c2 :
    IF c2.err # NoErr
    THEN FactoryResult("getRequestContext", region, EmptyRequestContext,
                       c2.err, <<Resolution(region2, c2)>>, c2.provider)
    ELSE
    With(newAWSConfig(instance, defaultRegion, homeOk), LAMBDA c1 :
    IF c1.err # NoErr
    THEN FactoryResult("getRequestContext", region,
             [EmptyRequestContext EXCEPT !.OAMAPIProvider = NewOAMAPI(c2.cfg)],
             c1.err,
             <<Resolution(region2, c2), Resolution(defaultRegion, c1)>>,
             c2.provider \o c1.provider)
    ELSE FactoryResult("getRequestContext", region,
             [OAMAPIProvider |-> NewOAMAPI(c2.cfg),
              MetricsClientProvider |-> NewMetricsClient(NewCWClient(c2.cfg)),
              LogsAPIProvider |-> NewLogsAPI(c2.cfg),
              EC2APIProvider |-> NewEC2API(c1.cfg),
              Settings |-> instance.Settings],
             NoErr,
             <<Resolution(region2, c2), Resolution(defaultRegion, c1)>>,
             c2.provider \o c1.provider))))

\* DataSource.getRequestContext.  homeOk, reqOk: whether the config provider
\* succeeds on the first and on the second resolution
getRequestContext(k, region, homeOk, reqOk) ==
    With(getInstance(k), LAMBDA gi :
    IF gi.err # NoErr
    THEN FactoryResult("getRequestContext", region, EmptyRequestContext,
                       gi.err, <<>>, <<>>)
    ELSE
    LET instance == gi.instance
        region2 == IF region = defaultRegion THEN instance.Settings.Region
                   ELSE region
    IN
    With(newAWSConfig(instance, defaultRegion, homeOk), LAMBDA c1 :
    IF c1.err # NoErr
    THEN FactoryResult("getRequestContext", region, EmptyRequestContext,
                       c1.err, <<Resolution(defaultRegion, c1)>>, c1.provider)
    ELSE
    LET ec2client == NewEC2API(c1.cfg) IN
    With(newAWSConfig(instance, region2, reqOk), LAMBDA c2 :
    IF c2.err # NoErr
    THEN FactoryResult("getRequestContext", region, EmptyRequestContext,
                       c2.err,
                       <<Resolution(defaultRegion, c1), Resolution(region2, c2)>>,
                       c1.provider \o c2.provider)
    ELSE FactoryResult("getRequestContext", region,
             [OAMAPIProvider |-> NewOAMAPI(c2.cfg),
              MetricsClientProvider |-> NewMetricsClient(NewCWClient(c2.cfg)),
              LogsAPIProvider |-> NewLogsAPI(c2.cfg),
              EC2APIProvider |-> ec2client,
              Settings |-> instance.Settings],
             NoErr,
             <<Resolution(defaultRegion, c1), Resolution(region2, c2)>>,
             c1.provider \o c2.provider))))

\* a mutant of getRequestContextOnlySettings: it resolves the home region's
\* configuration like the full build does
getRequestContextOnlySettingsResolving(k, region, homeOk, reqOk) ==
    With(getInstance(k), LAMBDA gi :
    IF gi.err # NoErr
    THEN FactoryResult("getRequestContextOnlySettings", region,
                       EmptyRequestContext, gi.err, <<>>, <<>>)
    ELSE
    With(newAWSConfig(gi.instance, defaultRegion, homeOk), LAMBDA c1 :
    IF c1.err # NoErr
    THEN FactoryResult("getRequestContextOnlySettings", region,
                       EmptyRequestContext, c1.err, <<Resolution(defaultRegion, c1)>>,
                       c1.provider)
    ELSE FactoryResult("getRequestContextOnlySettings", region,
             [OAMAPIProvider |-> Nil, MetricsClientProvider |-> Nil,
              LogsAPIProvider |-> Nil, EC2APIProvider |-> Nil,
              Settings |-> gi.instance.Settings],
             NoErr, <<Resolution(defaultRegion, c1)>>, c1.provider)))

\* DataSource.getRequestContextOnlySettings: the region argument and the
\* config provider are not used
getRequestContextOnlySettings(k, region, homeOk, reqOk) ==
    With(getInstance(k), LAMBDA gi :
    IF gi.err # NoErr
    THEN FactoryResult("getRequestContextOnlySettings", region,
                       EmptyRequestContext, gi.err, <<>>, <<>>)
    ELSE FactoryResult("getRequestContextOnlySettings", region,
             [OAMAPIProvider |-> Nil, MetricsClientProvider |-> Nil,
              LogsAPIProvider |-> Nil, EC2APIProvider |-> Nil,
              Settings |-> gi.instance.Settings],
             NoErr, <<>>, <<>>))

\* models.RequestContextFactoryFunc as the mux binds it: the factory named f
\* applied to the plugin context (the instance key) and a region
reqCtxFactory(f, k, region, env) ==
    IF f = "getRequestContextOnlySettings"
    THEN getRequestContextOnlySettings(k, region, env.homeOk, env.reqOk)
    ELSE getRequestContext(k, region, env.homeOk, env.reqOk)

-----------------------------------------------------------------------------
(* Encoding, provider calls and services *)

\* json.Marshal: the encoding of v, or an error.  ok: whether a value whose
\* type is declared outside these sources encodes
Marshal(v, ok) ==
    IF ok THEN [err |-> NoErr, bytes |-> [kind |-> "json", value |-> v]]
    ELSE [err |-> ErrMarshal, bytes |-> [kind |-> "none", value |-> ""]]

\* json.Marshal of ExternalIdResponse, a struct of one string: never fails
MarshalExternalIdResponse(response) ==
    [err |-> NoErr,
     bytes |-> [kind |-> "json", value |-> [externalId |-> response.ExternalId]]]

TextBody(msg) == [kind |-> "text", value |-> msg]
NoBody == [kind |-> "none", value |-> ""]

\* models.NewHttpError
NewHttpError(message, statusCode, err) ==
    [isNil |-> FALSE, Message |-> message, StatusCode |-> statusCode, Error |-> err]
\* a nil *models.HttpError
NilHttpError == [isNil |-> TRUE, Message |-> "", StatusCode |-> 0, Error |-> NoErr]

\* a call of a capability client.  outcome: what the provider answers.
\* A nil client panics; otherwise the answer names the API and the region of
\* the configuration the client was built from
CallProvider(client, outcome) ==
    IF client = Nil
    THEN [panic |-> TRUE, err |-> NoErr, data |-> <<>>, api |-> <<>>]
    ELSE [panic |-> FALSE,
          err |-> CASE outcome = "ok" -> NoErr
                    [] outcome = "accessDenied" -> ErrAccessDeniedException
                    [] OTHER -> ErrUpstream,
          data |-> IF outcome = "ok" THEN <<client.api, client.cfg.Region>>
                   ELSE <<>>,
          api |-> <<[api |-> client.api, region |-> client.cfg.Region]>>]

\* newAccountsService: the accounts service over the context's OAM client
newAccountsService(f, k, region, env) ==
    With(reqCtxFactory(f, k, region, env), LAMBDA oamClient :
    [client |-> IF oamClient.err # NoErr THEN Nil
                ELSE oamClient.ctx.OAMAPIProvider,
     err |-> oamClient.err, calls |-> <<oamClient>>])

\* newListMetricsService: the list-metrics service over the context's
\* metrics client
newListMetricsService(f, k, region, env) ==
    With(reqCtxFactory(f, k, region, env), LAMBDA rc :
    [client |-> IF rc.err # NoErr THEN Nil ELSE rc.ctx.MetricsClientProvider,
     err |-> rc.err, calls |-> <<rc>>])

\* resources.GetDimensionValuesRequest: the parsed request, or an error for
\* a filter that does not parse
GetDimensionValuesRequest(parameters) ==
    IF parameters.dimensionFilter = "malformed"
    THEN [err |-> ErrDimensionFilter, Region |-> ""]
    ELSE [err |-> NoErr, Region |-> parameters.region]

\* what a handler hands back: the payload, the HttpError, and what it did on
\* the way (the factory calls with their results, the provider API calls)
HandlerResult(body, httpError, calls, api, panic) ==
    [body |-> body, httpError |-> httpError, calls |-> calls, api |-> api,
     panic |-> panic]

-----------------------------------------------------------------------------
(* Route handlers *)

\* a mutant of AccountsHandler: an access-denied answer is classified like
\* any other provider error
AccountsHandlerDeniedAs500(f, k, parameters, env) ==
    LET region == parameters.region IN
    IF region = ""
    THEN HandlerResult(NoBody,
             NewHttpError("error in AccountsHandler", StatusBadRequest,
                          ErrRegionRequired), <<>>, <<>>, FALSE)
    ELSE
    With(newAccountsService(f, k, region, env), LAMBDA service :
    IF service.err # NoErr
    THEN HandlerResult(NoBody,
             NewHttpError("error in AccountsHandler",
                          StatusInternalServerError, service.err),
             service.calls, <<>>, FALSE)
    ELSE
    With(CallProvider(service.client, env.call), LAMBDA accounts :
    IF accounts.panic
    THEN HandlerResult(NoBody, NilHttpError, service.calls, <<>>, TRUE)
    ELSE IF accounts.err # NoErr
    THEN HandlerResult(NoBody,
             NewHttpError("error getting accounts for current user or role",
                          IF accounts.err = ErrAccessDeniedException
                          THEN StatusInternalServerError
                          ELSE StatusInternalServerError, accounts.err),
             service.calls, accounts.api, FALSE)
    ELSE
    With(Marshal(accounts.data, env.marshalOk), LAMBDA accountsResponse :
    IF accountsResponse.err # NoErr
    THEN HandlerResult(NoBody,
             NewHttpError("error in AccountsHandler",
                          StatusInternalServerError, accountsResponse.err),
             service.calls, accounts.api, FALSE)
    ELSE HandlerResult(accountsResponse.bytes, NilHttpError, service.calls,
                       accounts.api, FALSE))))

\* a mutant of AccountsHandler: the context is built before the region
\* parameter is validated
AccountsHandlerBuildFirst(f, k, parameters, env) ==
    LET region == parameters.region IN
    With(newAccountsService(f, k, region, env), LAMBDA service :
    IF service.err # NoErr
    THEN HandlerResult(NoBody,
             NewHttpError("error in AccountsHandler",
                          StatusInternalServerError, service.err),
             service.calls, <<>>, FALSE)
    ELSE
    IF region = ""
    THEN HandlerResult(NoBody,
             NewHttpError("error in AccountsHandler", StatusBadRequest,
                          ErrRegionRequired), service.calls, <<>>, FALSE)
    ELSE
    With(CallProvider(service.client, env.call), LAMBDA accounts :
    IF accounts.panic
    THEN HandlerResult(NoBody, NilHttpError, service.calls, <<>>, TRUE)
    ELSE IF accounts.err # NoErr
    THEN HandlerResult(NoBody,
             NewHttpError("error getting accounts for current user or role",
                          IF accounts.err = ErrAccessDeniedException
                          THEN StatusForbidden
                          ELSE StatusInternalServerError, accounts.err),
             service.calls, accounts.api, FALSE)
    ELSE
    With(Marshal(accounts.data, env.marshalOk), LAMBDA accountsResponse :
    IF accountsResponse.err # NoErr
    THEN HandlerResult(NoBody,
             NewHttpError("error in AccountsHandler",
                          StatusInternalServerError, accountsResponse.err),
             service.calls, accounts.api, FALSE)
    ELSE HandlerResult(accountsResponse.bytes, NilHttpError, service.calls,
                       accounts.api, FALSE))))

\* routes.AccountsHandler
AccountsHandler(f, k, parameters, env) ==
    LET region == parameters.region IN
    IF region = ""
    THEN HandlerResult(NoBody,
             NewHttpError("error in AccountsHandler", StatusBadRequest,
                          ErrRegionRequired), <<>>, <<>>, FALSE)
    ELSE
    With(newAccountsService(f, k, region, env), LAMBDA service :
    IF service.err # NoErr
    THEN HandlerResult(NoBody,
             NewHttpError("error in AccountsHandler",
                          StatusInternalServerError, service.err),
             service.calls, <<>>, FALSE)
    ELSE
    With(CallProvider(service.client, env.call), LAMBDA accounts :
    IF accounts.panic
    THEN HandlerResult(NoBody, NilHttpError, service.calls, <<>>, TRUE)
    ELSE IF accounts.err # NoErr
    THEN HandlerResult(NoBody,
             NewHttpError("error getting accounts for current user or role",
                          IF accounts.err = ErrAccessDeniedException
                          THEN StatusForbidden
                          ELSE StatusInternalServerError, accounts.err),
             service.calls, accounts.api, FALSE)
    ELSE
    With(Marshal(accounts.data, env.marshalOk), LAMBDA accountsResponse :
    IF accountsResponse.err # NoErr
    THEN HandlerResult(NoBody,
             NewHttpError("error in AccountsHandler",
                          StatusInternalServerError, accountsResponse.err),
             service.calls, accounts.api, FALSE)
    ELSE HandlerResult(accountsResponse.bytes, NilHttpError, service.calls,
                       accounts.api, FALSE))))

\* routes.DimensionValuesHandler
DimensionValuesHandler(f, k, parameters, env) ==
    With(GetDimensionValuesRequest(parameters), LAMBDA dimensionValuesRequest :
    IF dimensionValuesRequest.err # NoErr
    THEN HandlerResult(NoBody,
             NewHttpError("error in DimensionValuesHandler",
                          StatusBadRequest, dimensionValuesRequest.err),
             <<>>, <<>>, FALSE)
    ELSE
    With(newListMetricsService(f, k, dimensionValuesRequest.Region, env),
         LAMBDA service :
    IF service.err # NoErr
    THEN HandlerResult(NoBody,
             NewHttpError("error in DimensionValuesHandler",
                          StatusInternalServerError, service.err),
             service.calls, <<>>, FALSE)
    ELSE
    With(CallProvider(service.client, env.call), LAMBDA response :
    IF response.panic
    THEN HandlerResult(NoBody, NilHttpError, service.calls, <<>>, TRUE)
    ELSE IF response.err # NoErr
    THEN HandlerResult(NoBody,
             NewHttpError("error in DimensionValuesHandler",
                          StatusInternalServerError, response.err),
             service.calls, response.api, FALSE)
    ELSE
    With(Marshal(response.data, env.marshalOk), LAMBDA dimensionValuesResponse :
    IF dimensionValuesResponse.err # NoErr
    THEN HandlerResult(NoBody,
             NewHttpError("error in DimensionValuesHandler",
                          StatusInternalServerError,
                          dimensionValuesResponse.err),
             service.calls, response.api, FALSE)
    ELSE HandlerResult(dimensionValuesResponse.bytes, NilHttpError,
                       service.calls, response.api, FALSE)))))

\* routes.ExternalIdHandler
ExternalIdHandler(f, k, parameters, env) ==
    With(reqCtxFactory(f, k, "", env), LAMBDA reqCtx :
    IF reqCtx.err # NoErr
    THEN HandlerResult(NoBody,
             NewHttpError("error in ExternalIdHandler",
                          StatusInternalServerError, reqCtx.err),
             <<reqCtx>>, <<>>, FALSE)
    ELSE
    LET response == [ExternalId |-> reqCtx.ctx.Settings.ExternalID] IN
    With(MarshalExternalIdResponse(response), LAMBDA jsonResponse :
    IF jsonResponse.err # NoErr
    THEN HandlerResult(NoBody,
             NewHttpError("error in ExternalIdHandler",
                          StatusInternalServerError, jsonResponse.err),
             <<reqCtx>>, <<>>, FALSE)
    ELSE HandlerResult(jsonResponse.bytes, NilHttpError, <<reqCtx>>, <<>>,
                       FALSE)))

-----------------------------------------------------------------------------
(* Handlers whose bodies are outside these sources *)

\* the capability client a general-pattern handler takes from the context
GenericClient(h, ctx) ==
    CASE h \in {"LogGroupsHandler", "LogGroupFieldsHandler"} -> ctx.LogsAPIProvider
      [] h = "RegionsHandler" -> ctx.EC2APIProvider
      [] OTHER -> ctx.MetricsClientProvider

\* the general-pattern handlers that declare region a required parameter
GenericRequiresRegion(h) ==
    h \in {"DimensionKeysHandler", "LogGroupsHandler", "LogGroupFieldsHandler"}

\* the general pattern of the other middleware handlers: validate, build the
\* context, take a client from it, call, marshal
GenericHandler(h, f, k, parameters, env) ==
    IF GenericRequiresRegion(h) /\ parameters.region = ""
    THEN HandlerResult(NoBody,
             NewHttpError(h, StatusBadRequest, ErrRegionRequired),
             <<>>, <<>>, FALSE)
    ELSE
    LET region == IF parameters.region = "" THEN defaultRegion
                  ELSE parameters.region
    IN
    With(reqCtxFactory(f, k, region, env), LAMBDA rc :
    IF rc.err # NoErr
    THEN HandlerResult(NoBody,
             NewHttpError(h, StatusInternalServerError, rc.err),
             <<rc>>, <<>>, FALSE)
    ELSE
    With(CallProvider(GenericClient(h, rc.ctx), env.call), LAMBDA response :
    IF response.panic
    THEN HandlerResult(NoBody, NilHttpError, <<rc>>, <<>>, TRUE)
    ELSE IF response.err # NoErr
    THEN HandlerResult(NoBody,
             NewHttpError(h, StatusInternalServerError, response.err),
             <<rc>>, response.api, FALSE)
    ELSE
    With(Marshal(response.data, env.marshalOk), LAMBDA encoded :
    IF encoded.err # NoErr
    THEN HandlerResult(NoBody,
             NewHttpError(h, StatusInternalServerError, encoded.err),
             <<rc>>, response.api, FALSE)
    ELSE HandlerResult(encoded.bytes, NilHttpError, <<rc>>, response.api,
                       FALSE))))

\* DataSource.getAWSConfig
getAWSConfig(k, region, providerOk) ==
    With(getInstance(k), LAMBDA gi :
    IF gi.err # NoErr
    THEN [cfg |-> EmptyConfig, err |-> gi.err, provider |-> <<>>]
    ELSE newAWSConfig(gi.instance, region, providerOk))

\* DataSource.getEC2Client / getRGTAClient / getCWLogsClient: the client of
\* the named API over the configuration of the region
getClient(api, k, region, providerOk) ==
    With(getAWSConfig(k, region, providerOk), LAMBDA c :
    IF c.err # NoErr
    THEN [client |-> Nil, err |-> c.err, provider |-> c.provider]
    ELSE [client |-> [api |-> api, cfg |-> c.cfg], err |-> NoErr,
          provider |-> c.provider])

\* the API a simple handler builds its client for
SimpleApi(h) ==
    CASE h = "handleGetResourceArns" -> "RGTA"
      [] h = "handleGetLogGroups" -> "CWLogs"
      [] OTHER -> "EC2"

\* a handleFn (handleGetEbsVolumeIds, handleGetEc2InstanceAttribute,
\* handleGetResourceArns, handleGetLogGroups): builds its client for the
\* region parameter, calls the provider, returns suggestions or an error
handleFn(h, k, parameters, env) ==
    With(getClient(SimpleApi(h), k, parameters.region, env.reqOk), LAMBDA c :
    IF c.err # NoErr
    THEN [data |-> <<>>, err |-> c.err, api |-> <<>>, provider |-> c.provider]
    ELSE
    With(CallProvider(c.client, env.call), LAMBDA r :
    [data |-> r.data, err |-> r.err, api |-> r.api, provider |-> c.provider]))

-----------------------------------------------------------------------------
(* Resource Router *)

Route(adapter, handler, factory) ==
    [adapter |-> adapter, handler |-> handler, factory |-> factory]

Paths ==
    {"/ebs-volume-ids", "/ec2-instance-attribute", "/resource-arns",
     "/log-groups", "/metrics", "/dimension-values", "/dimension-keys",
     "/accounts", "/namespaces", "/log-group-fields", "/external-id",
     "/regions", "/legacy-log-groups"}

\* a mutant of newResourceMux: /regions is bound to the settings-only factory
newResourceMuxRegionsOnlySettings ==
    [p \in Paths |->
      CASE p = "/ebs-volume-ids" -> Route("handleResourceReq", "handleGetEbsVolumeIds", "none")
        [] p = "/ec2-instance-attribute" -> Route("handleResourceReq", "handleGetEc2InstanceAttribute", "none")
        [] p = "/resource-arns" -> Route("handleResourceReq", "handleGetResourceArns", "none")
        [] p = "/log-groups" -> Route("ResourceRequestMiddleware", "LogGroupsHandler", "getRequestContext")
        [] p = "/metrics" -> Route("ResourceRequestMiddleware", "MetricsHandler", "getRequestContext")
        [] p = "/dimension-values" -> Route("ResourceRequestMiddleware", "DimensionValuesHandler", "getRequestContext")
        [] p = "/dimension-keys" -> Route("ResourceRequestMiddleware", "DimensionKeysHandler", "getRequestContext")
        [] p = "/accounts" -> Route("ResourceRequestMiddleware", "AccountsHandler", "getRequestContext")
        [] p = "/namespaces" -> Route("ResourceRequestMiddleware", "NamespacesHandler", "getRequestContext")
        [] p = "/log-group-fields" -> Route("ResourceRequestMiddleware", "LogGroupFieldsHandler", "getRequestContext")
        [] p = "/external-id" -> Route("ResourceRequestMiddleware", "ExternalIdHandler", "getRequestContextOnlySettings")
        [] p = "/regions" -> Route("ResourceRequestMiddleware", "RegionsHandler", "getRequestContextOnlySettings")
        [] p = "/legacy-log-groups" -> Route("handleResourceReq", "handleGetLogGroups", "none")]

\* DataSource.newResourceMux: path -> adapter, handler, context factory
newResourceMux ==
    [p \in Paths |->
      CASE p = "/ebs-volume-ids" -> Route("handleResourceReq", "handleGetEbsVolumeIds", "none")
        [] p = "/ec2-instance-attribute" -> Route("handleResourceReq", "handleGetEc2InstanceAttribute", "none")
        [] p = "/resource-arns" -> Route("handleResourceReq", "handleGetResourceArns", "none")
        [] p = "/log-groups" -> Route("ResourceRequestMiddleware", "LogGroupsHandler", "getRequestContext")
        [] p = "/metrics" -> Route("ResourceRequestMiddleware", "MetricsHandler", "getRequestContext")
        [] p = "/dimension-values" -> Route("ResourceRequestMiddleware", "DimensionValuesHandler", "getRequestContext")
        [] p = "/dimension-keys" -> Route("ResourceRequestMiddleware", "DimensionKeysHandler", "getRequestContext")
        [] p = "/accounts" -> Route("ResourceRequestMiddleware", "AccountsHandler", "getRequestContext")
        [] p = "/namespaces" -> Route("ResourceRequestMiddleware", "NamespacesHandler", "getRequestContext")
        [] p = "/log-group-fields" -> Route("ResourceRequestMiddleware", "LogGroupFieldsHandler", "getRequestContext")
        [] p = "/external-id" -> Route("ResourceRequestMiddleware", "ExternalIdHandler", "getRequestContextOnlySettings")
        [] p = "/regions" -> Route("ResourceRequestMiddleware", "RegionsHandler", "getRequestContext")
        [] p = "/legacy-log-groups" -> Route("handleResourceReq", "handleGetLogGroups", "none")]

\* what an adapter leaves behind: the statuses written with WriteHeader, the
\* body, whether the handler ran, the error the adapter met (NoErr on
\* success), and what the handler did
Response(writes, body, ran, err, httpError, calls, api, provider, panic) ==
    [writes |-> writes, body |-> body, ran |-> ran, err |-> err,
     httpError |-> httpError, calls |-> calls, api |-> api,
     provider |-> provider, panic |-> panic]

\* the GetConfig calls of a sequence of factory calls, in order
ProviderCalls(calls) ==
    LET F[i \in 0..Len(calls)] ==
            IF i = 0 THEN <<>> ELSE F[i - 1] \o calls[i].provider
    IN  F[Len(calls)]

\* writeResponse: one WriteHeader, then the message as the body
writeResponse(code, msg, ran, api, provider) ==
    Response(<<code>>, TextBody(msg), ran, msg, NilHttpError, <<>>, api,
             provider, FALSE)

\* a mutant of handleResourceReq: an error of the handler is answered 500
handleResourceReqHandlerError500(h, k, parameters, env) ==
    IF ~env.parseOk
    THEN writeResponse(StatusBadRequest, ErrParseForm, FALSE, <<>>, <<>>)
    ELSE
    With(handleFn(h, k, parameters, env), LAMBDA d :
    IF d.err # NoErr
    THEN writeResponse(StatusInternalServerError, d.err, TRUE, d.api, d.provider)
    ELSE
    With(Marshal(d.data, env.marshalOk), LAMBDA body :
    IF body.err # NoErr
    THEN writeResponse(StatusBadRequest, body.err, TRUE, d.api, d.provider)
    ELSE Response(<<StatusOK>>, body.bytes, TRUE, NoErr, NilHttpError, <<>>,
                  d.api, d.provider, FALSE)))

\* handleResourceReq, the simple adapter
handleResourceReq(h, k, parameters, env) ==
    IF ~env.parseOk
    THEN writeResponse(StatusBadRequest, ErrParseForm, FALSE, <<>>, <<>>)
    ELSE
    With(handleFn(h, k, parameters, env), LAMBDA d :
    IF d.err # NoErr
    THEN writeResponse(StatusBadRequest, d.err, TRUE, d.api, d.provider)
    ELSE
    With(Marshal(d.data, env.marshalOk), LAMBDA body :
    IF body.err # NoErr
    THEN writeResponse(StatusBadRequest, body.err, TRUE, d.api, d.provider)
    ELSE Response(<<StatusOK>>, body.bytes, TRUE, NoErr, NilHttpError, <<>>,
                  d.api, d.provider, FALSE)))

\* the handler a middleware route names, applied
RouteHandler(h, f, k, parameters, env) ==
    CASE h = "AccountsHandler" -> AccountsHandler(f, k, parameters, env)
      [] h = "DimensionValuesHandler" -> DimensionValuesHandler(f, k, parameters, env)
      [] h = "ExternalIdHandler" -> ExternalIdHandler(f, k, parameters, env)
      [] OTHER -> GenericHandler(h, f, k, parameters, env)

\* routes.ResourceRequestMiddleware, the middleware adapter: the handler's
\* payload with 200, or the HttpError's status and message
ResourceRequestMiddleware(h, f, k, parameters, env) ==
    IF ~env.parseOk
    THEN Response(<<StatusBadRequest>>, TextBody(ErrParseForm), FALSE,
                  ErrParseForm, NilHttpError, <<>>, <<>>, <<>>, FALSE)
    ELSE
    With(RouteHandler(h, f, k, parameters, env), LAMBDA r :
    IF r.panic
    THEN Response(<<>>, NoBody, TRUE, "panic", r.httpError, r.calls, r.api,
                  ProviderCalls(r.calls), TRUE)
    ELSE IF r.httpError.isNil
    THEN Response(<<StatusOK>>, r.body, TRUE, NoErr, r.httpError, r.calls,
                  r.api, ProviderCalls(r.calls), FALSE)
    ELSE Response(<<r.httpError.StatusCode>>, TextBody(r.httpError.Message),
                  TRUE, r.httpError.Error, r.httpError, r.calls, r.api,
                  ProviderCalls(r.calls), FALSE))

\* the mux serving one request
ServeHTTP(path, k, parameters, env) ==
    With(newResourceMux[path], LAMBDA route :
    IF route.adapter = "handleResourceReq"
    THEN handleResourceReq(route.handler, k, parameters, env)
    ELSE ResourceRequestMiddleware(route.handler, route.factory, k,
                                   parameters, env))

-----------------------------------------------------------------------------
(* Requests *)

Parameters == [region : RequestRegions, dimensionFilter : {"valid", "malformed"}]

\* what the environment decides during one resource request
Envs == [homeOk : BOOLEAN, reqOk : BOOLEAN,
         call : {"ok", "accessDenied", "error"},
         marshalOk : BOOLEAN, parseOk : BOOLEAN]

\* DataSource.CallResource
CallResource(k, path, parameters, env) ==
    /\ last' = [op |-> "resource", k |-> k, path |-> path,
                route |-> newResourceMux[path], parameters |-> parameters,
                response |-> ServeHTTP(path, k, parameters, env)]
    /\ UNCHANGED <<im, caches, nextCache, tasks>>

-----------------------------------------------------------------------------
(* Query Dispatcher *)

\* a header that the request does not carry
Absent == "<absent>"
HeaderValues == {Absent, "", "true"}
\* req.Headers, as far as QueryData reads it: the FromAlert key, and the
\* http_X-Grafana-From-Expr key that GetHTTPHeader looks up
HeadersSet == [FromAlert : HeaderValues, FromExpr : HeaderValues]

QueryTypes == {"", annotationQuery, logAction, timeSeriesQuery, "otherType"}
QueryModes == {"", logsQueryMode, "Metrics"}
\* the JSON of one query: whether it decodes, and the fields it decodes to
QueryJSONs ==
    [decodes : {TRUE}, Type : QueryTypes, QueryMode : QueryModes]
    \cup {[decodes |-> FALSE, Type |-> "", QueryMode |-> ""]}
\* the queries after the first of a request
LaterQueryJSONs ==
    {[decodes |-> FALSE, Type |-> "", QueryMode |-> ""],
     [decodes |-> TRUE, Type |-> "", QueryMode |-> logsQueryMode],
     [decodes |-> TRUE, Type |-> annotationQuery, QueryMode |-> ""],
     [decodes |-> TRUE, Type |-> logAction, QueryMode |-> logsQueryMode]}
\* the lists of at most n queries that may follow the first
LaterQueries(n) ==
    UNION {[1..m -> LaterQueryJSONs] : m \in 0..n}
\* req.Queries: empty, or a first query and at most MaxQueries - 1 others
QueriesSet ==
    {<<>>} \cup {<<q>> \o tail : q \in QueryJSONs,
                                 tail \in LaterQueries(MaxQueries - 1)}

\* json.Unmarshal into DataQueryJson
Unmarshal(json) ==
    IF json.decodes
    THEN [err |-> NoErr, model |-> [Type |-> json.Type, QueryMode |-> json.QueryMode]]
    ELSE [err |-> "ErrUnmarshal", model |-> [Type |-> "", QueryMode |-> ""]]

\* req.GetHTTPHeader: the value of the header, "" when it is not there
GetHTTPHeader(headers) ==
    IF headers.FromExpr = Absent THEN "" ELSE headers.FromExpr

QueryResult(executed, err, panic) ==
    [executed |-> executed, err |-> err, panic |-> panic]

\* a mutant of QueryDataResult: a Logs query from an alert or an expression
\* is dispatched by its type like any other query
QueryDataResultNoHeaders(req, execErr) ==
    IF req.Queries = <<>> THEN QueryResult(<<>>, NoErr, TRUE)
    ELSE
    LET q == req.Queries[1]
        u == Unmarshal(q)
        model == u.model
        queryMode == IF model.QueryMode # "" THEN model.QueryMode ELSE ""
        fromPublicDashboard == model.Type = "" /\ queryMode = logsQueryMode
    IN  IF u.err # NoErr THEN QueryResult(<<>>, u.err, FALSE)
        ELSE IF fromPublicDashboard
        THEN QueryResult(<<"executeSyncLogQuery">>, execErr, FALSE)
        ELSE CASE model.Type = annotationQuery ->
                    QueryResult(<<"executeAnnotationQuery">>, execErr, FALSE)
               [] model.Type = logAction ->
                    QueryResult(<<"executeLogActions">>, execErr, FALSE)
               [] OTHER ->
                    QueryResult(<<"executeTimeSeriesQuery">>, execErr, FALSE)

\* a mutant of QueryDataResult: the query that is decoded and decides the
\* path is the last one of the request
QueryDataResultLastQuery(req, execErr) ==
    IF req.Queries = <<>> THEN QueryResult(<<>>, NoErr, TRUE)
    ELSE
    LET q == req.Queries[Len(req.Queries)]
        u == Unmarshal(q)
        model == u.model
        fromAlert == req.Headers.FromAlert # Absent
        fromExpression == GetHTTPHeader(req.Headers) # ""
        queryMode == IF model.QueryMode # "" THEN model.QueryMode ELSE ""
        fromPublicDashboard == model.Type = "" /\ queryMode = logsQueryMode
        isSyncLogQuery ==
            ((fromAlert \/ fromExpression) /\ queryMode = logsQueryMode)
            \/ fromPublicDashboard
    IN  IF u.err # NoErr THEN QueryResult(<<>>, u.err, FALSE)
        ELSE IF isSyncLogQuery
        THEN QueryResult(<<"executeSyncLogQuery">>, execErr, FALSE)
        ELSE CASE model.Type = annotationQuery ->
                    QueryResult(<<"executeAnnotationQuery">>, execErr, FALSE)
               [] model.Type = logAction ->
                    QueryResult(<<"executeLogActions">>, execErr, FALSE)
               [] OTHER ->
                    QueryResult(<<"executeTimeSeriesQuery">>, execErr, FALSE)

\* DataSource.QueryData: the execution path taken and the error returned.
\* execErr: the error of the execution path.  Queries[0] of an empty list
\* panics
QueryDataResult(req, execErr) ==
    IF req.Queries = <<>> THEN QueryResult(<<>>, NoErr, TRUE)
    ELSE
    LET q == req.Queries[1]
        u == Unmarshal(q)
        model == u.model
        fromAlert == req.Headers.FromAlert # Absent
        fromExpression == GetHTTPHeader(req.Headers) # ""
        queryMode == IF model.QueryMode # "" THEN model.QueryMode ELSE ""
        fromPublicDashboard == model.Type = "" /\ queryMode = logsQueryMode
        isSyncLogQuery ==
            ((fromAlert \/ fromExpression) /\ queryMode = logsQueryMode)
            \/ fromPublicDashboard
    IN  IF u.err # NoErr THEN QueryResult(<<>>, u.err, FALSE)
        ELSE IF isSyncLogQuery
        THEN QueryResult(<<"executeSyncLogQuery">>, execErr, FALSE)
        ELSE CASE model.Type = annotationQuery ->
                    QueryResult(<<"executeAnnotationQuery">>, execErr, FALSE)
               [] model.Type = logAction ->
                    QueryResult(<<"executeLogActions">>, execErr, FALSE)
               [] model.Type = timeSeriesQuery ->
                    QueryResult(<<"executeTimeSeriesQuery">>, execErr, FALSE)
               [] OTHER ->
                    QueryResult(<<"executeTimeSeriesQuery">>, execErr, FALSE)

QueryData(req, execErr) ==
    /\ last' = [op |-> "query", req |-> req,
                result |-> QueryDataResult(req, execErr)]
    /\ UNCHANGED <<im, caches, nextCache, tasks>>

-----------------------------------------------------------------------------
(* Health check *)

HealthStatusOk == "OK"
HealthStatusError == "ERROR"

HealthEnvs == [metricsCfgOk : BOOLEAN, logsCfgOk : BOOLEAN,
               listMetrics : {"ok", "error"}, describeLogGroups : {"ok", "error"}]

\* DataSource.checkHealthMetrics
checkHealthMetrics(k, cfgOk, outcome) ==
    With(getInstance(k), LAMBDA gi :
    IF gi.err # NoErr
    THEN [probe |-> "metrics", err |-> gi.err, api |-> <<>>, provider |-> <<>>]
    ELSE
    With(newAWSConfig(gi.instance, defaultRegion, cfgOk), LAMBDA c :
    IF c.err # NoErr
    THEN [probe |-> "metrics", err |-> c.err, api |-> <<>>, provider |-> c.provider]
    ELSE
    LET metricClient == NewMetricsClient(NewCWClient(c.cfg)) IN
    With(CallProvider(metricClient, outcome), LAMBDA r :
    [probe |-> "metrics", err |-> r.err, api |-> r.api, provider |-> c.provider])))

\* DataSource.checkHealthLogs
checkHealthLogs(k, cfgOk, outcome) ==
    With(getAWSConfig(k, defaultRegion, cfgOk), LAMBDA c :
    IF c.err # NoErr
    THEN [probe |-> "logs", err |-> c.err, api |-> <<>>, provider |-> c.provider]
    ELSE
    LET logsClient == NewLogsAPI(c.cfg) IN
    With(CallProvider(logsClient, outcome), LAMBDA r :
    [probe |-> "logs", err |-> r.err, api |-> r.api, provider |-> c.provider]))

\* fmt.Sprintf("1. %s\n2. %s", metricsTest, logsTest): the lines of the
\* message, each its number and its text
HealthMessage(metricsTest, logsTest) ==
    <<[number |-> "1. ", text |-> metricsTest],
      [number |-> "2. ", text |-> logsTest]>>

\* a mutant of CheckHealthResult: the logs probe is skipped once the metrics
\* probe has failed
CheckHealthResultStopAtFirstFailure(k, env) ==
    With(checkHealthMetrics(k, env.metricsCfgOk, env.listMetrics), LAMBDA m :
    IF m.err # NoErr
    THEN [Status |-> HealthStatusError,
          Message |-> HealthMessage(
                        <<"CloudWatch metrics query failed: ", m.err>>,
                        <<"Successfully queried the CloudWatch logs API.">>),
          err |-> NoErr, probes |-> <<m>>]
    ELSE
    With(checkHealthLogs(k, env.logsCfgOk, env.describeLogGroups), LAMBDA l :
    LET metricsTest == <<"Successfully queried the CloudWatch metrics API.">>
        logsTest == IF l.err # NoErr
                    THEN <<"CloudWatch logs query failed: ", l.err>>
                    ELSE <<"Successfully queried the CloudWatch logs API.">>
    IN  [Status |-> IF l.err # NoErr THEN HealthStatusError
                    ELSE HealthStatusOk,
         Message |-> HealthMessage(metricsTest, logsTest),
         err |-> NoErr, probes |-> <<m, l>>]))

\* DataSource.CheckHealth: the result, the error returned beside it, and the
\* probes run in order
CheckHealthResult(k, env) ==
    With(checkHealthMetrics(k, env.metricsCfgOk, env.listMetrics), LAMBDA m :
    With(checkHealthLogs(k, env.logsCfgOk, env.describeLogGroups), LAMBDA l :
    LET metricsTest == IF m.err # NoErr
                       THEN <<"CloudWatch metrics query failed: ", m.err>>
                       ELSE <<"Successfully queried the CloudWatch metrics API.">>
        logsTest == IF l.err # NoErr
                    THEN <<"CloudWatch logs query failed: ", l.err>>
                    ELSE <<"Successfully queried the CloudWatch logs API.">>
        status == IF m.err # NoErr \/ l.err # NoErr THEN HealthStatusError
                  ELSE HealthStatusOk
    IN  [Status |-> status, Message |-> HealthMessage(metricsTest, logsTest),
         err |-> NoErr, probes |-> <<m, l>>]))

CheckHealth(k, env) ==
    /\ last' = [op |-> "health", k |-> k, result |-> CheckHealthResult(k, env)]
    /\ UNCHANGED <<im, caches, nextCache, tasks>>

-----------------------------------------------------------------------------
(* Instance life cycle and the tag value cache *)

\* a cache as cache.New leaves it: no entries
EmptyCache == [key \in TagKeys |-> NoValue]

\* a mutant of NewDatasource: every instance is given the first cache of the
\* process instead of a cache of its own
NewDatasourceSharedCache(settings, loadOk, newCache) ==
    IF ~loadOk
    THEN [instance |-> NoInstance, err |-> "error reading settings", allocated |-> FALSE]
    ELSE [instance |-> [present |-> TRUE, Settings |-> settings,
                        tagValueCache |-> 1],
          err |-> NoErr, allocated |-> TRUE]

\* NewDatasource.  loadOk: whether LoadCloudWatchSettings succeeds;
\* newCache: the cache that cache.New returns, allocated only when it is called
NewDatasource(settings, loadOk, newCache) ==
    IF ~loadOk
    THEN [instance |-> NoInstance, err |-> "error reading settings", allocated |-> FALSE]
    ELSE [instance |-> [present |-> TRUE, Settings |-> settings,
                        tagValueCache |-> newCache],
          err |-> NoErr, allocated |-> TRUE]

\* the instance manager making the instance of key k: on first use, and again
\* after the settings of the data source have changed (a reload)
CreateInstance(k, settings, loadOk) ==
    LET r == NewDatasource(settings, loadOk, nextCache + 1) IN
    /\ nextCache < MaxCaches
    /\ im' = [im EXCEPT ![k] = r.instance]
    /\ nextCache' = IF r.allocated THEN nextCache + 1 ELSE nextCache
    /\ caches' = IF r.allocated
                 THEN [caches EXCEPT ![nextCache + 1] = EmptyCache]
                 ELSE caches
    /\ last' = [op |-> "create", k |-> k, err |-> r.err,
                reload |-> im[k].present]
    /\ UNCHANGED tasks

\* a request handler writing a tag value through the instance of key k
TagValueCacheSet(k, key, value) ==
    /\ im[k].present
    /\ caches' = [caches EXCEPT ![im[k].tagValueCache][key] = value]
    /\ last' = [op |-> "cacheSet", k |-> k, key |-> key, value |-> value]
    /\ UNCHANGED <<im, nextCache, tasks>>

\* a request handler reading a tag value through the instance of key k
TagValueCacheGet(k, key) ==
    /\ im[k].present
    /\ last' = [op |-> "cacheGet", k |-> k, key |-> key,
                value |-> caches[im[k].tagValueCache][key]]
    /\ UNCHANGED <<im, caches, nextCache, tasks>>

\* an entry of cache c reaching its expiration
Expire(c, key) ==
    /\ c <= nextCache
    /\ caches[c][key] # NoValue
    /\ caches' = [caches EXCEPT ![c][key] = NoValue]
    /\ last' = [op |-> "expire"]
    /\ UNCHANGED <<im, nextCache, tasks>>

-----------------------------------------------------------------------------
(* Concurrent requests *)

\* the tasks the host runs in parallel, one request each
Tasks == {"t1", "t2"}
TaskOps == {"getRequestContext", "getRequestContextOnlySettings",
            "getAWSConfig", "CheckHealth", "QueryData"}

\* a task that handles no request.  Of a task: op, the operation it runs;
\* k, arg: the instance key and the region argument of the request;
\* pc: its position; instance, region, ec2client, cfg: its local variables;
\* ctx, err: what the operation returned; errs: the errors of the health
\* probes; executed: the execution path QueryData chose
IdleTask ==
    [op |-> "none", k |-> "", arg |-> "", pc |-> "idle",
     instance |-> NoInstance, region |-> "", ec2client |-> Nil,
     cfg |-> EmptyConfig, ctx |-> EmptyRequestContext, err |-> NoErr,
     errs |-> <<>>, executed |-> <<>>]

NoTasks == [p \in Tasks |-> IdleTask]

\* the first position of each operation
FirstPc(op) ==
    CASE op = "CheckHealth" -> "metrics:getInstance"
      [] op = "QueryData" -> "dispatch"
      [] OTHER -> "getInstance"

\* the region argument of an operation: only the full context build and the
\* configuration resolution take one that they read
TaskRegions(op) ==
    IF op \in {"getRequestContext", "getAWSConfig"} THEN RequestRegions
    ELSE {""}

\* the requests a task may be given to dispatch: one query each
TaskQueryRequests ==
    [Headers : HeadersSet, Queries : {<<q>> : q \in QueryJSONs}]

\* a task returning err beside the zero value of its result
ReturnErr(t, err) ==
    [t EXCEPT !.pc = "done", !.err = err, !.ctx = EmptyRequestContext,
              !.cfg = EmptyConfig]

\* a mutant of getRequestContextStep: an explicit region is written into the
\* Settings of the instance value instead of the local variable alone
getRequestContextStepWritingSettings(t, ok) ==
    CASE t.pc = "getInstance" ->
            With(getInstance(t.k), LAMBDA gi :
            IF gi.err # NoErr THEN ReturnErr(t, gi.err)
            ELSE IF t.region = defaultRegion
            THEN [t EXCEPT !.instance = gi.instance,
                           !.region = gi.instance.Settings.Region,
                           !.pc = "home"]
            ELSE [t EXCEPT !.instance =
                               [gi.instance EXCEPT !.Settings.Region = t.region],
                           !.pc = "home"])
      [] t.pc = "home" ->
            With(newAWSConfig(t.instance, defaultRegion, ok), LAMBDA c :
            IF c.err # NoErr THEN ReturnErr(t, c.err)
            ELSE [t EXCEPT !.ec2client = NewEC2API(c.cfg), !.pc = "requested"])
      [] t.pc = "requested" ->
            With(newAWSConfig(t.instance, t.region, ok), LAMBDA c :
            IF c.err # NoErr THEN ReturnErr(t, c.err)
            ELSE [t EXCEPT !.cfg = c.cfg, !.pc = "done",
                     !.ctx = [OAMAPIProvider |-> NewOAMAPI(c.cfg),
                              MetricsClientProvider |->
                                  NewMetricsClient(NewCWClient(c.cfg)),
                              LogsAPIProvider |-> NewLogsAPI(c.cfg),
                              EC2APIProvider |-> t.ec2client,
                              Settings |-> t.instance.Settings]])

\* DataSource.getRequestContext, one step from the position t.pc to the next
\* suspension point: the instance lookup with the substitution of the
\* sentinel, the resolution of the home region, the resolution of the
\* requested region.  ok: whether the config provider succeeds
getRequestContextStep(t, ok) ==
    CASE t.pc = "getInstance" ->
            With(getInstance(t.k), LAMBDA gi :
            IF gi.err # NoErr THEN ReturnErr(t, gi.err)
            ELSE [t EXCEPT !.instance = gi.instance,
                           !.region = IF t.region = defaultRegion
                                      THEN gi.instance.Settings.Region
                                      ELSE t.region,
                           !.pc = "home"])
      [] t.pc = "home" ->
            With(newAWSConfig(t.instance, defaultRegion, ok), LAMBDA c :
            IF c.err # NoErr THEN ReturnErr(t, c.err)
            ELSE [t EXCEPT !.ec2client = NewEC2API(c.cfg), !.pc = "requested"])
      [] t.pc = "requested" ->
            With(newAWSConfig(t.instance, t.region, ok), LAMBDA c :
            IF c.err # NoErr THEN ReturnErr(t, c.err)
            ELSE [t EXCEPT !.cfg = c.cfg, !.pc = "done",
                     !.ctx = [OAMAPIProvider |-> NewOAMAPI(c.cfg),
                              MetricsClientProvider |->
                                  NewMetricsClient(NewCWClient(c.cfg)),
                              LogsAPIProvider |-> NewLogsAPI(c.cfg),
                              EC2APIProvider |-> t.ec2client,
                              Settings |-> t.instance.Settings]])

\* DataSource.getRequestContextOnlySettings, its one step
getRequestContextOnlySettingsStep(t) ==
    With(getInstance(t.k), LAMBDA gi :
    IF gi.err # NoErr THEN ReturnErr(t, gi.err)
    ELSE [t EXCEPT !.instance = gi.instance, !.pc = "done",
             !.ctx = [OAMAPIProvider |-> Nil, MetricsClientProvider |-> Nil,
                      LogsAPIProvider |-> Nil, EC2APIProvider |-> Nil,
                      Settings |-> gi.instance.Settings]])

\* DataSource.getAWSConfig, one step: the instance lookup, then newAWSConfig
getAWSConfigStep(t, ok) ==
    CASE t.pc = "getInstance" ->
            With(getInstance(t.k), LAMBDA gi :
            IF gi.err # NoErr THEN ReturnErr(t, gi.err)
            ELSE [t EXCEPT !.instance = gi.instance, !.pc = "resolve"])
      [] t.pc = "resolve" ->
            With(newAWSConfig(t.instance, t.region, ok), LAMBDA c :
            IF c.err # NoErr THEN ReturnErr(t, c.err)
            ELSE [t EXCEPT !.cfg = c.cfg, !.pc = "done"])

\* DataSource.CheckHealth, one step: checkHealthMetrics (instance lookup,
\* resolution of the sentinel, listing call), then checkHealthLogs (the
\* same through getAWSConfig), whatever the first probe returned.
\* ok: whether the config provider or the API call of the step succeeds
CheckHealthStep(t, ok) ==
    CASE t.pc = "metrics:getInstance" ->
            With(getInstance(t.k), LAMBDA gi :
            IF gi.err # NoErr
            THEN [t EXCEPT !.errs = <<gi.err>>, !.pc = "logs:getInstance"]
            ELSE [t EXCEPT !.instance = gi.instance, !.pc = "metrics:resolve"])
      [] t.pc = "metrics:resolve" ->
            With(newAWSConfig(t.instance, defaultRegion, ok), LAMBDA c :
            IF c.err # NoErr
            THEN [t EXCEPT !.errs = <<c.err>>, !.pc = "logs:getInstance"]
            ELSE [t EXCEPT !.cfg = c.cfg, !.pc = "metrics:call"])
      [] t.pc = "metrics:call" ->
            [t EXCEPT !.errs = <<IF ok THEN NoErr ELSE ErrUpstream>>,
                      !.cfg = EmptyConfig, !.pc = "logs:getInstance"]
      [] t.pc = "logs:getInstance" ->
            With(getInstance(t.k), LAMBDA gi :
            IF gi.err # NoErr
            THEN [t EXCEPT !.errs = Append(t.errs, gi.err), !.pc = "done"]
            ELSE [t EXCEPT !.instance = gi.instance, !.pc = "logs:resolve"])
      [] t.pc = "logs:resolve" ->
            With(newAWSConfig(t.instance, defaultRegion, ok), LAMBDA c :
            IF c.err # NoErr
            THEN [t EXCEPT !.errs = Append(t.errs, c.err), !.pc = "done"]
            ELSE [t EXCEPT !.cfg = c.cfg, !.pc = "logs:call"])
      [] t.pc = "logs:call" ->
            [t EXCEPT !.errs = Append(t.errs, IF ok THEN NoErr ELSE ErrUpstream),
                      !.cfg = EmptyConfig, !.pc = "done"]

\* DataSource.QueryData up to the call of the execution path it chose
QueryDataStep(t, req) ==
    With(QueryDataResult(req, NoErr), LAMBDA r :
    [t EXCEPT !.executed = r.executed, !.err = r.err, !.pc = "done"])

\* a request arrives and task p starts to handle it
StartTask(p, op, k, region) ==
    /\ tasks[p].pc = "idle"
    /\ tasks' = [tasks EXCEPT ![p] =
                    [IdleTask EXCEPT !.op = op, !.k = k, !.arg = region,
                                     !.region = region, !.pc = FirstPc(op)]]
    /\ UNCHANGED <<im, caches, nextCache, last>>

\* task p, building a Request Context, runs to its next suspension point
ContextBuildStep(p) ==
    /\ tasks[p].pc \notin {"idle", "done"}
    /\ \/ /\ tasks[p].op = "getRequestContext"
          /\ \E ok \in BOOLEAN :
                tasks' = [tasks EXCEPT ![p] = getRequestContextStep(tasks[p], ok)]
       \/ /\ tasks[p].op = "getRequestContextOnlySettings"
          /\ tasks' = [tasks EXCEPT ![p] =
                          getRequestContextOnlySettingsStep(tasks[p])]
    /\ UNCHANGED <<im, caches, nextCache, last>>

\* task p, resolving a configuration for a client, runs to its next
\* suspension point
ConfigStep(p) ==
    /\ tasks[p].pc \notin {"idle", "done"}
    /\ tasks[p].op = "getAWSConfig"
    /\ \E ok \in BOOLEAN :
          tasks' = [tasks EXCEPT ![p] = getAWSConfigStep(tasks[p], ok)]
    /\ UNCHANGED <<im, caches, nextCache, last>>

\* task p, checking health, runs to its next suspension point
HealthStep(p) ==
    /\ tasks[p].pc \notin {"idle", "done"}
    /\ tasks[p].op = "CheckHealth"
    /\ \E ok \in BOOLEAN :
          tasks' = [tasks EXCEPT ![p] = CheckHealthStep(tasks[p], ok)]
    /\ UNCHANGED <<im, caches, nextCache, last>>

\* task p dispatches the queries of its request
QueryStep(p) ==
    /\ tasks[p].pc = "dispatch"
    /\ tasks[p].op = "QueryData"
    /\ \E req \in TaskQueryRequests :
          tasks' = [tasks EXCEPT ![p] = QueryDataStep(tasks[p], req)]
    /\ UNCHANGED <<im, caches, nextCache, last>>

\* the request of task p is over: what it built is discarded
FinishTask(p) ==
    /\ tasks[p].pc = "done"
    /\ tasks' = [tasks EXCEPT ![p] = IdleTask]
    /\ UNCHANGED <<im, caches, nextCache, last>>

-----------------------------------------------------------------------------
(* Specifications *)

NoOp == [op |-> "none"]

PresentInstances == [present : {TRUE}, Settings : SettingsSet, tagValueCache : {0}]

\* the request is over: its response, its Request Context and its resolved
\* configurations are discarded
EndRequest ==
    /\ last.op \in {"resource", "query", "health"}
    /\ last' = NoOp
    /\ UNCHANGED <<im, caches, nextCache, tasks>>

\* Request handling over memoized instances of any settings, one request
\* after the other.  The instances
\* are those the instance manager holds when the requests arrive; the cache
\* of an instance plays no part in these requests
Init ==
    /\ im \in [InstanceKeys -> PresentInstances \cup {NoInstance}]
    /\ caches = [c \in CacheIds |-> EmptyCache]
    /\ nextCache = 0
    /\ last = NoOp
    /\ tasks = NoTasks

\* no request is being handled
Idle == last.op = "none"

\* a resource request arrives and is served
ResourceRequest ==
    /\ Idle
    /\ \E k \in InstanceKeys, path \in Paths, parameters \in Parameters,
          env \in Envs : CallResource(k, path, parameters, env)

\* a query request arrives and is dispatched
QueryRequest ==
    /\ Idle
    /\ \E req \in [Headers : HeadersSet, Queries : QueriesSet],
          execErr \in {NoErr, "ErrExecute"} : QueryData(req, execErr)

\* a health check arrives and is answered
HealthRequest ==
    /\ Idle
    /\ \E k \in InstanceKeys, env \in HealthEnvs : CheckHealth(k, env)

Next ==
    \/ ResourceRequest
    \/ QueryRequest
    \/ HealthRequest
    \/ EndRequest

Spec == Init /\ [][Next]_vars

\* The life cycle of instances and their tag value caches, from a process
\* that has made no instance yet
InitCache ==
    /\ im = [k \in InstanceKeys |-> NoInstance]
    /\ caches = [c \in CacheIds |-> EmptyCache]
    /\ nextCache = 0
    /\ last = NoOp
    /\ tasks = NoTasks

NextCache ==
    \/ \E k \in InstanceKeys, settings \in SettingsSet, loadOk \in BOOLEAN :
          CreateInstance(k, settings, loadOk)
    \/ \E k \in InstanceKeys, key \in TagKeys, value \in TagValues :
          TagValueCacheSet(k, key, value)
    \/ \E k \in InstanceKeys, key \in TagKeys : TagValueCacheGet(k, key)
    \/ \E c \in CacheIds, key \in TagKeys : Expire(c, key)

SpecCache == InitCache /\ [][NextCache]_vars

\* Requests handled concurrently over memoized instances of any settings: the
\* steps of the tasks interleave in every order
NextTasks ==
    \/ \E p \in Tasks, op \in TaskOps, k \in InstanceKeys :
          \E region \in TaskRegions(op) : StartTask(p, op, k, region)
    \/ \E p \in Tasks : ContextBuildStep(p)
    \/ \E p \in Tasks : ConfigStep(p)
    \/ \E p \in Tasks : HealthStep(p)
    \/ \E p \in Tasks : QueryStep(p)
    \/ \E p \in Tasks : FinishTask(p)

\* the instances the tasks are run over: any home region, one external id
InitTasks ==
    /\ im \in [InstanceKeys ->
                 {i \in PresentInstances : i.Settings.ExternalID = "ext-1"}
                 \cup {NoInstance}]
    /\ caches = [c \in CacheIds |-> EmptyCache]
    /\ nextCache = 0
    /\ last = NoOp
    /\ tasks = NoTasks

SpecTasks == InitTasks /\ [][NextTasks]_vars

-----------------------------------------------------------------------------
(* Properties of resource requests *)

IsResource == last.op = "resource"
Resp == last.response
IsMiddleware == last.route.adapter = "ResourceRequestMiddleware"
IsSimple == last.route.adapter = "handleResourceReq"
\* the settings of the instance the last request was for
HomeRegionOf(k) == im[k].Settings.Region
\* the errors that are not the access-denied condition: instance lookup and
\* configuration build failures, other provider failures, marshal failures
NonAccessErrors ==
    {ErrInstance, ErrMissingRegion, ErrGetConfig, ErrUpstream, ErrMarshal}
\* the successful full context builds of the last request
FullBuilds ==
    {i \in 1..Len(Resp.calls) :
        /\ Resp.calls[i].factory = "getRequestContext"
        /\ Resp.calls[i].err = NoErr}
AllClientsNil(ctx) ==
    /\ ctx.OAMAPIProvider = Nil
    /\ ctx.MetricsClientProvider = Nil
    /\ ctx.LogsAPIProvider = Nil
    /\ ctx.EC2APIProvider = Nil
NoClientNil(ctx) ==
    /\ ctx.OAMAPIProvider # Nil
    /\ ctx.MetricsClientProvider # Nil
    /\ ctx.LogsAPIProvider # Nil
    /\ ctx.EC2APIProvider # Nil

\* C1, as stated: an access-denied answer to the Accounts handler is answered
\* 403, and every other error met by any handler, under either adapter, is
\* answered 500.
C1_AnyHandlerAnswers500 ==
    IsResource /\ Resp.ran =>
        /\ last.route.handler = "AccountsHandler"
             /\ Resp.err = ErrAccessDeniedException
           => Resp.writes = <<StatusForbidden>>
        /\ Resp.err \in NonAccessErrors
           => Resp.writes = <<StatusInternalServerError>>

\* C1, amended: an access-denied answer to the Accounts handler is declared
\* and answered 403; every other error met by a handler under the middleware
\* adapter (an access-denied answer to another handler included) is declared
\* and answered 500; under the simple adapter the same errors are answered 400.
C1_MiddlewareAnswers500SimpleAnswers400 ==
    IsResource /\ Resp.ran =>
        /\ last.route.handler = "AccountsHandler"
             /\ Resp.err = ErrAccessDeniedException
           => /\ Resp.httpError.StatusCode = StatusForbidden
              /\ Resp.writes = <<StatusForbidden>>
        /\ IsMiddleware
             /\ \/ Resp.err \in NonAccessErrors
                \/ /\ Resp.err = ErrAccessDeniedException
                   /\ last.route.handler # "AccountsHandler"
           => /\ Resp.httpError.StatusCode = StatusInternalServerError
              /\ Resp.writes = <<StatusInternalServerError>>
        /\ IsSimple /\ Resp.err \in NonAccessErrors \cup {ErrAccessDeniedException}
           => Resp.writes = <<StatusBadRequest>>

\* C1 witness: the provider denied access to the Accounts handler, answered 403
C1_Witness ==
    /\ IsResource
    /\ last.path = "/accounts"
    /\ Resp.api # <<>>
    /\ Resp.err = ErrAccessDeniedException
    /\ Resp.writes = <<StatusForbidden>>

MissesRequiredParameter ==
    \/ last.route.handler = "AccountsHandler" /\ last.parameters.region = ""
    \/ /\ last.route.handler = "DimensionValuesHandler"
       /\ last.parameters.dimensionFilter = "malformed"
    \/ /\ GenericRequiresRegion(last.route.handler)
       /\ last.parameters.region = ""

C4_SettingsOnlyNeverResolves ==
    IsResource /\ last.path = "/external-id" /\ Resp.ran =>
        /\ Len(Resp.calls) = 1
        /\ Resp.calls[1].factory = "getRequestContextOnlySettings"
        /\ Resp.calls[1].resolved = <<>>
        /\ Resp.calls[1].provider = <<>>
        /\ AllClientsNil(Resp.calls[1].ctx)
        /\ Resp.api = <<>>
        /\ im[last.k].present =>
             /\ Resp.writes = <<StatusOK>>
             /\ Resp.body = [kind |-> "json",
                    value |-> [externalId |-> im[last.k].Settings.ExternalID]]
        /\ ~im[last.k].present =>
             /\ Resp.writes = <<StatusInternalServerError>>
             /\ Resp.err = ErrInstance

\* C4 witness: the external id of an instance whose home region is empty, so
\* that no configuration could be resolved for it, answered 200
C4_Witness ==
    /\ IsResource
    /\ last.path = "/external-id"
    /\ im[last.k].present
    /\ HomeRegionOf(last.k) = ""
    /\ Resp.writes = <<StatusOK>>
    /\ Resp.body.value = [externalId |-> "ext-2"]

\* C5: the settings-only factory is bound to /external-id and to no other
\* path, every other middleware route is bound to the full factory, and no
\* handler but the external-id handler is given a context without clients.
C5_SettingsOnlyContextOnlyForExternalId ==
    /\ \A p \in Paths :
          /\ newResourceMux[p].factory = "getRequestContextOnlySettings"
               <=> p = "/external-id"
          /\ newResourceMux[p].adapter = "ResourceRequestMiddleware"
               /\ p # "/external-id"
             => newResourceMux[p].factory = "getRequestContext"
    /\ IsResource /\ last.path # "/external-id" =>
          /\ ~Resp.panic
          /\ \A i \in 1..Len(Resp.calls) :
                /\ Resp.calls[i].factory = "getRequestContext"
                /\ Resp.calls[i].err = NoErr => NoClientNil(Resp.calls[i].ctx)

\* C5 witness: /regions was served with a full context
C5_Witness ==
    /\ IsResource
    /\ last.path = "/regions"
    /\ FullBuilds # {}
    /\ Resp.writes = <<StatusOK>>

-----------------------------------------------------------------------------
(* Properties of the query dispatcher *)

IsQuery == last.op = "query"
\* the first query of the last request decoded
Decoded == last.req.Queries # <<>> /\ last.req.Queries[1].decodes
\* the path the decision table gives a decoded first query, fromExpression
\* being what counts as the X-Grafana-From-Expr header being there
TablePath(fromExpression) ==
    LET q == last.req.Queries[1]
        fromAlert == last.req.Headers.FromAlert # Absent
    IN  IF q.QueryMode = "Logs" /\ (fromAlert \/ fromExpression \/ q.Type = "")
        THEN "executeSyncLogQuery"
        ELSE IF q.Type = "annotationQuery" THEN "executeAnnotationQuery"
        ELSE IF q.Type = "logAction" THEN "executeLogActions"
        ELSE "executeTimeSeriesQuery"

\* C6, as stated: exactly one execution path, chosen by the decision table,
\* the X-Grafana-From-Expr header counting whenever it is present.
C6_DecisionTableHeaderPresent ==
    IsQuery /\ Decoded =>
        last.result.executed = <<TablePath(last.req.Headers.FromExpr # Absent)>>

\* C6, amended: for a request whose first query decodes, exactly one
\* execution path, chosen by the decision table, the FromAlert header
\* counting whenever it is present and the X-Grafana-From-Expr header only
\* when it is present with a non-empty value.
C6_DecisionTableHeaderNonEmpty ==
    IsQuery /\ Decoded =>
        last.result.executed =
            <<TablePath(last.req.Headers.FromExpr \notin {Absent, ""})>>

\* C6 witness: a Logs query of a declared type with the FromAlert header was
\* executed as a synchronous log query
C6_Witness ==
    /\ IsQuery
    /\ Decoded
    /\ last.req.Headers.FromAlert # Absent
    /\ last.req.Headers.FromExpr = Absent
    /\ last.req.Queries[1].QueryMode = "Logs"
    /\ last.req.Queries[1].Type = "timeSeriesQuery"
    /\ last.result.executed = <<"executeSyncLogQuery">>

-----------------------------------------------------------------------------
(* Properties of the full context build *)

\* C7: in a full build the home region is resolved first and the requested
\* region second; a resolution that fails is the last one attempted, and a
\* build that fails returns an error with the empty context.
C7_HomeFirstFailFast ==
    IsResource =>
        \A i \in 1..Len(Resp.calls) :
            LET c == Resp.calls[i]
                requested == IF c.region = defaultRegion
                             THEN HomeRegionOf(last.k) ELSE c.region
            IN  c.factory = "getRequestContext" /\ im[last.k].present =>
                  /\ Len(c.resolved) \in {1, 2}
                  /\ c.resolved[1].region = defaultRegion
                  /\ Len(c.resolved) = 2 =>
                       /\ c.resolved[1].err = NoErr
                       /\ c.resolved[2].region = requested
                  /\ c.err = c.resolved[Len(c.resolved)].err
                  /\ c.err = NoErr => Len(c.resolved) = 2
                  /\ c.err # NoErr => c.ctx = EmptyRequestContext

\* C7 witness: the home-region resolution failed in the config provider, and
\* the build stopped there with an error and the empty context
C7_Witness ==
    /\ IsResource
    /\ \E i \in 1..Len(Resp.calls) :
          /\ Resp.calls[i].factory = "getRequestContext"
          /\ Resp.calls[i].resolved = <<[region |-> defaultRegion, err |-> ErrGetConfig]>>
          /\ Resp.calls[i].provider = <<HomeRegionOf(last.k)>>
          /\ Resp.calls[i].err = ErrGetConfig
          /\ Resp.calls[i].ctx = EmptyRequestContext

-----------------------------------------------------------------------------
(* Properties of the simple adapter *)

\* C8: the simple adapter writes exactly one status: 400 with the error text
\* on a form-parse failure, on an error of the handler and on a marshal
\* failure, 200 with the JSON-encoded suggestions otherwise; the handler does
\* not run when the form does not parse.
C8_SimpleAdapterStatuses ==
    IsResource /\ IsSimple =>
        /\ last.path \in {"/ebs-volume-ids", "/ec2-instance-attribute",
                          "/resource-arns", "/legacy-log-groups"}
        /\ Len(Resp.writes) = 1
        /\ Resp.err # NoErr =>
             /\ Resp.writes = <<StatusBadRequest>>
             /\ Resp.body = TextBody(Resp.err)
        /\ Resp.err = NoErr =>
             /\ Resp.writes = <<StatusOK>>
             /\ Resp.body.kind = "json"
             /\ Resp.api # <<>>
             /\ Resp.body.value = <<Resp.api[1].api, Resp.api[1].region>>
        /\ ~Resp.ran <=> Resp.err = ErrParseForm
        /\ ~Resp.ran => Resp.api = <<>> /\ Resp.provider = <<>>

\* C8 witness: a simple handler ran and returned the provider's error
C8_Witness ==
    /\ IsResource
    /\ IsSimple
    /\ Resp.ran
    /\ Resp.err = ErrUpstream
    /\ Resp.writes = <<StatusBadRequest>>

-----------------------------------------------------------------------------
(* Properties of the health check *)

IsHealth == last.op = "health"

\* C9: the health check runs the metrics probe and then the logs probe
\* whatever the first returns, lists only against the home region, reports
\* ok exactly when both probes succeed, returns no error, and writes two
\* numbered lines, each with the failure of its probe if it failed.
C9_HealthRunsBothProbes ==
    IsHealth =>
        LET r == last.result
            m == r.probes[1]
            l == r.probes[2]
        IN  /\ r.err = NoErr
            /\ Len(r.probes) = 2
            /\ m.probe = "metrics" /\ l.probe = "logs"
            /\ r.Status = HealthStatusOk <=> (m.err = NoErr /\ l.err = NoErr)
            /\ r.Status \in {HealthStatusOk, HealthStatusError}
            /\ \A i \in 1..2 : \A j \in 1..Len(r.probes[i].api) :
                  r.probes[i].api[j].region = HomeRegionOf(last.k)
            /\ Len(r.Message) = 2
            /\ r.Message[1].number = "1. " /\ r.Message[2].number = "2. "
            /\ r.Message[1].text =
                 IF m.err # NoErr
                 THEN <<"CloudWatch metrics query failed: ", m.err>>
                 ELSE <<"Successfully queried the CloudWatch metrics API.">>
            /\ r.Message[2].text =
                 IF l.err # NoErr
                 THEN <<"CloudWatch logs query failed: ", l.err>>
                 ELSE <<"Successfully queried the CloudWatch logs API.">>

\* C9 witness: the metrics probe failed and the logs probe still listed the
\* log groups, successfully
C9_Witness ==
    /\ IsHealth
    /\ last.result.probes[1].err = ErrUpstream
    /\ Len(last.result.probes) = 2
    /\ last.result.probes[2].api # <<>>
    /\ last.result.probes[2].err = NoErr
    /\ last.result.Status = HealthStatusError

-----------------------------------------------------------------------------
(* Properties of the tag value cache *)

PresentKeys == {k \in InstanceKeys : im[k].present}

-----------------------------------------------------------------------------
(* C11 *)

\* the tasks that hold a copy of their instance
HoldsInstance(t) == t.instance # NoInstance

\* the tasks that have returned a Request Context
ReturnedContext(t) ==
    /\ t.op \in {"getRequestContext", "getRequestContextOnlySettings"}
    /\ t.pc = "done"
    /\ t.err = NoErr

\* every task's copy of the instance, and every Request Context returned,
\* carries the Settings the instance manager holds for the key
SettingsAsLoaded(m, ts) ==
    \A p \in Tasks :
        /\ HoldsInstance(ts[p]) => ts[p].instance.Settings = m[ts[p].k].Settings
        /\ ReturnedContext(ts[p]) => ts[p].ctx.Settings = m[ts[p].k].Settings

\* C11: no step of a request (full context build, settings-only build,
\* configuration resolution, health check, query dispatch) changes a
\* memoized instance, whatever the other task is doing: after every step
\* each instance is as it was loaded, the copy each task holds and the
\* Settings of every Request Context returned equal the Settings of the
\* memoized instance, and substituting the sentinel changed only the task's
\* local region
C11_RequestsLeaveSettingsAsLoaded ==
    [][/\ im' = im
       /\ SettingsAsLoaded(im', tasks')
       /\ \A p \in Tasks :
            (tasks[p].op = "getRequestContext" /\ tasks[p].pc = "getInstance"
             /\ tasks'[p].pc = "home" /\ tasks[p].arg = defaultRegion)
            => /\ tasks'[p].region = im[tasks[p].k].Settings.Region
               /\ tasks'[p].instance = im[tasks[p].k]]_vars

\* two tasks handle requests for one instance at once: one has returned a
\* full context built for the sentinel, the other is between its two
\* resolutions for an explicit region that is not the home region
C11_Witness ==
    /\ tasks["t1"].op = "getRequestContext"
    /\ tasks["t1"].arg = defaultRegion
    /\ ReturnedContext(tasks["t1"])
    /\ tasks["t2"].op = "getRequestContext"
    /\ tasks["t2"].k = tasks["t1"].k
    /\ tasks["t2"].pc = "requested"
    /\ tasks["t2"].arg \notin {"", defaultRegion, im[tasks["t2"].k].Settings.Region}

-----------------------------------------------------------------------------
(* C12 *)

\* C12: when the home region of the instance is empty, every full context
\* build fails with the missing-region error and the empty context without a
\* call of the config provider, whatever region was requested, and both
\* probes of the health check fail with the same error, without a call of
\* the config provider or of a listing API.
C12_EmptyHomeRegionFailsEveryBuild ==
    /\ (IsResource /\ im[last.k].present /\ HomeRegionOf(last.k) = "") =>
          \A i \in 1..Len(Resp.calls) :
              Resp.calls[i].factory = "getRequestContext" =>
                  /\ Resp.calls[i].err = ErrMissingRegion
                  /\ Resp.calls[i].provider = <<>>
                  /\ Resp.calls[i].ctx = EmptyRequestContext
    /\ (IsHealth /\ im[last.k].present /\ HomeRegionOf(last.k) = "") =>
          /\ Len(last.result.probes) = 2
          /\ \A i \in 1..2 :
                /\ last.result.probes[i].err = ErrMissingRegion
                /\ last.result.probes[i].provider = <<>>
                /\ last.result.probes[i].api = <<>>
          /\ last.result.Status = HealthStatusError

\* C12 witness: an instance without a home region was asked for the accounts
\* of an explicit region, and the build failed before the config provider
\* was called
C12_Witness ==
    /\ IsResource
    /\ im[last.k].present
    /\ HomeRegionOf(last.k) = ""
    /\ last.path = "/accounts"
    /\ last.parameters.region = "us-east-1"
    /\ \E i \in 1..Len(Resp.calls) :
          /\ Resp.calls[i].factory = "getRequestContext"
          /\ Resp.calls[i].region = "us-east-1"
          /\ Resp.calls[i].err = ErrMissingRegion
          /\ Resp.calls[i].provider = <<>>

-----------------------------------------------------------------------------
(* C13 *)

\* the request of the last query request with other queries after its first
WithLaterQueries(tail) ==
    [last.req EXCEPT !.Queries = <<last.req.Queries[1]>> \o tail]

\* C13: the execution path of a request with a first query is the path of
\* every request with the same headers and the same first query, whatever
\* queries follow the first; when the first query does not decode, an error
\* is returned and no execution path is invoked, whatever queries follow.
C13_PathDecidedByHeadersAndFirstQuery ==
    (IsQuery /\ last.req.Queries # <<>>) =>
        /\ \A tail \in LaterQueries(MaxQueries - 1) :
              QueryDataResult(WithLaterQueries(tail), NoErr).executed
                  = last.result.executed
        /\ ~last.req.Queries[1].decodes =>
              /\ last.result.err # NoErr
              /\ last.result.executed = <<>>
              /\ ~last.result.panic
        /\ last.req.Queries[1].decodes => Len(last.result.executed) = 1

\* C13 witness: an annotation query is followed by a Logs query in a request
\* from an alert, and the annotation path is taken for the whole request
C13_Witness ==
    /\ IsQuery
    /\ Len(last.req.Queries) = 2
    /\ last.req.Headers.FromAlert = "true"
    /\ last.req.Queries[1].decodes
    /\ last.req.Queries[1].Type = annotationQuery
    /\ last.req.Queries[2].Type = logAction
    /\ last.req.Queries[2].QueryMode = logsQueryMode
    /\ last.result.executed = <<"executeAnnotationQuery">>

====
